---- MODULE Spec2Model ----
(***************************************************************************)
(* Round-trip test loops of the Nookal formatting investigation.          *)
(*                                                                         *)
(* Each investigation script runs the same loop over a literal corpus of   *)
(* test cases: tag the text with a marker, add it as a treatment note,     *)
(* wait, fetch the notes back, look the note up by its marker, compare,    *)
(* and count the outcome.  One loop iteration is one "cell".  The remote   *)
(* note store is the vendor API: it keeps the notes of earlier runs of the  *)
(* script and decides by itself what a fetch returns.                      *)
(*                                                                         *)
(* The text classifier (analyseCorruption and the character analysis) is   *)
(* a pure function; it is checked under SpecClassify, whose initial states *)
(* draw the two strings from a bounded set.  A string is a sequence of     *)
(* code points; the code points that the classifier looks for are written  *)
(* as ASCII tokens: "A~" is U+00C3, "A^" is U+00C2, "a^" is U+00E2, "EUR"  *)
(* is U+20AC, "EMPTY" is U+2205, "e" is a letter with nothing to it;       *)
(* CharTable lists the code unit of every token that is transcoded.        *)
(*                                                                         *)
(* SpecMock runs one text through a store that hands back the UTF-8 bytes  *)
(* of what was submitted as one character each, sent as it is and sent     *)
(* reverse-encoded.  SpecEscapes writes a text as \uXXXX escapes and reads  *)
(* the escapes back.                                                       *)
(*                                                                         *)
(* SpecSanitise applies sanitiseUnicodeForNookal to a drawn text.          *)
(* SpecClient answers one NookalClient.makeRequest call with a drawn HTTP  *)
(* response.  SpecUtf16 and SpecImages run the loops of testUtf16Encoding  *)
(* and of the image scripts, whose verdicts differ from the common loop.   *)
(* SpecRetry runs retry() against a function that resolves or rejects as   *)
(* it pleases; SpecRetryFair adds that a pending promise settles and a     *)
(* timer fires.  SpecEnv applies loadEnvFile to a drawn file and a drawn   *)
(* environment.                                                            *)
(***************************************************************************)
EXTENDS Integers, Sequences, FiniteSets, TLC

\* Bounds of the model.
NumCases == 2   \* test cases in the corpus (5 or 10 in the scripts)
MaxLen == 2     \* longest string drawn for the classifier

Cells == 1..NumCases

Scripts ==
  {"testHeaderFix", "testPhpSdkMimicry", "testReverseEncoding",
   "testReverseEncodingWithHeaders", "testUnicodeEntities", "testUnicodeNotes"}

\* How the retrieved text relates to the expected text: identical, different
\* with one of the corruption patterns in it, different without any.
TextClasses == {"same", "pattern", "clean"}

\* testUnicodeEntities sends an encoded form of the text and also asks whether
\* the retrieved text is that encoded form, unchanged.
TextClassesOf(s) ==
  IF s = "testUnicodeEntities" THEN TextClasses \cup {"encoded"} ELSE TextClasses

VARIABLES
  script,      \* the script that is being run
  pc,          \* position in the script
  i,           \* loop index, 1-based: the code's i + 1
  store,       \* notes the remote store holds
  cellState,   \* per cell of this run: where it is in its life cycle
  submits,     \* per cell: addTreatmentNote calls issued
  fetches,     \* per cell: get*TreatmentNotes calls issued
  observed,    \* per cell: what the lookup by marker produced
  outcome,     \* per cell: the outcome line the script printed
  counts,      \* the script's outcome counters
  results,     \* testUnicodeNotes: the results array
  report,      \* what the summary printed
  original,    \* classifier input: the text that was sent
  retrieved,   \* classifier input: the text that came back
  analysis,    \* classifier output
  payload      \* mock store: the text that was submitted

harnessVars ==
  <<script, pc, i, store, cellState, submits, fetches, observed, outcome, counts, results,
    report>>
classifyVars == <<original, retrieved, analysis, payload>>

\* The state of the utilities of utils.ts: the options and the locals of
\* retry, the calls of fn and the sleeps it has made so far and how it ended;
\* process.env before and after loadEnvFile, the file it reads and how the
\* call ended.
VARIABLES options, attempt, delay, lastError, calls, sleeps, retryPc, result,
          env, envBefore, envFile, loaded

utilVars == <<options, attempt, delay, lastError, calls, sleeps, retryPc, result,
              env, envBefore, envFile, loaded>>
vars == <<harnessVars, classifyVars, utilVars>>

----------------------------------------------------------------------------
\* The marker a cell of run r puts in front of its text.  It is built from
\* the script's fixed prefix and the loop index alone; r is "this" for the
\* run that is going on and "earlier" for the runs before it.
Marker(s, r, c) == <<s, c>>

\* The note the store keeps for an accepted submission.  owner is not part of
\* the note: it records which cell of which run submitted it.
Note(s, r, c) == [marker |-> Marker(s, r, c), owner |-> <<r, c>>]

\* The notes a lookup by marker can return: ourNote = notes.find(includes(marker)).
Matching(s, r, c) == {n \in store : n.marker = Marker(s, r, c)}

\* The store when the script is started again: the notes are the same, all of
\* them are now notes of an earlier run.
AgedStore(s) == {Note(s, "earlier", n.owner[2]) : n \in store}

\* Fetch calls a cell makes before it gives up: testUnicodeNotes asks for the
\* patient's notes and then for all notes, the other scripts ask once.
MaxFetches(s) == IF s = "testUnicodeNotes" THEN 2 ELSE 1

\* Where an empty patient/case/practitioner list leads: a return, or (no length
\* check) a TypeError that the outer catch takes.
SetupEmptyTarget(s) == IF s = "testPhpSdkMimicry" THEN "outerCatch" ELSE "returned"

\* The outcome line printed for a retrieved text.
ClassifyOutcome(s, tc) ==
  CASE tc = "same" -> "PERFECT"
    [] tc = "encoded" -> "PRESERVED"
    [] tc = "pattern" -> "CORRUPTED"
    [] OTHER -> IF s \in {"testPhpSdkMimicry", "testReverseEncoding",
                          "testReverseEncodingWithHeaders", "testUnicodeEntities",
                          "testUtf16Encoding"}
                THEN "IMPROVED" ELSE "CORRUPTED"

\* The counter incremented for a retrieved text.
ClassifyCounter(s, tc) ==
  CASE tc = "same" -> "success"
    [] tc = "encoded" -> "partial"
    [] tc = "pattern" -> "fail"
    [] OTHER -> CASE s \in {"testPhpSdkMimicry", "testUnicodeEntities",
                             "testUtf16Encoding"} -> "partial"
                  [] s \in {"testReverseEncoding", "testReverseEncodingWithHeaders"} -> "success"
                  [] OTHER -> "fail"

Bump(k) == [counts EXCEPT ![k] = @ + 1]

NoObservation == [kind |-> "none"]
NotFoundObservation == [kind |-> "NotFound"]

\* results.push(...) happens in testUnicodeNotes only.
Push(s, entry) == IF s = "testUnicodeNotes" THEN Append(results, entry) ELSE results

\* The values of the script's locals when it starts.
NoCounts == [k \in {"success", "partial", "fail"} |-> 0]
AllCells(v) == [c \in Cells |-> v]

NoReport == [kind |-> "none"]

FreshLocals ==
  /\ i = 1
  /\ cellState = AllCells("PENDING")
  /\ submits = AllCells(0)
  /\ fetches = AllCells(0)
  /\ observed = AllCells(NoObservation)
  /\ outcome = AllCells("none")
  /\ counts = NoCounts
  /\ results = <<>>
  /\ report = NoReport

NoAnalysis == [kind |-> "idle"]

\* No utility is running.
Undefined == [kind |-> "undefined"]

RetryIdle ==
  /\ options = Undefined
  /\ attempt = 0
  /\ delay = 0
  /\ lastError = Undefined
  /\ calls = <<>>
  /\ sleeps = <<>>
  /\ retryPc = "idle"
  /\ result = Undefined

EnvIdle ==
  /\ env = <<>>
  /\ envBefore = <<>>
  /\ envFile = Undefined
  /\ loaded = "idle"

UtilIdle ==
  /\ RetryIdle
  /\ EnvIdle

ClassifyIdle ==
  /\ original = <<>>
  /\ retrieved = <<>>
  /\ analysis = NoAnalysis
  /\ payload = <<>>

Init ==
  /\ script \in Scripts
  /\ pc = "setup"
  /\ store = {}
  /\ FreshLocals
  /\ UtilIdle
  /\ ClassifyIdle

----------------------------------------------------------------------------
\* Mutant of Setup: the first note is sent before the lists are looked at.
SetupSubmitsBeforeChecking ==
  /\ pc = "setup"
  /\ submits' = [submits EXCEPT ![1] = @ + 1]
  /\ store' = store \cup {Note(script, "this", 1)}
  /\ pc' \in {"loop", SetupEmptyTarget(script), "outerCatch"}
  /\ UNCHANGED <<utilVars, script, i, cellState, fetches, observed, outcome, counts, results,
                 report, classifyVars>>

\* getPatients / getCases / getPractitioners before the loop.
Setup ==
  /\ pc = "setup"
  /\ \E o \in {"ok", "empty", "throw"} :
       pc' = CASE o = "ok" -> "loop"
               [] o = "empty" -> SetupEmptyTarget(script)
               [] OTHER -> "outerCatch"
  /\ UNCHANGED <<utilVars, script, i, store, cellState, submits, fetches, observed, outcome,
                 counts, results, report, classifyVars>>

\* for (let i = 0; i < testCases.length; i++)
ForLoop ==
  /\ pc = "loop"
  /\ pc' = IF i <= NumCases THEN "submit" ELSE "summary"
  /\ UNCHANGED <<utilVars, script, i, store, cellState, submits, fetches, observed, outcome,
                 counts, results, report, classifyVars>>

\* await client.addTreatmentNote(...): it rejects, or it resolves; a resolved
\* call leaves a note in the store or (silent rejection) does not.
Submit ==
  /\ pc = "submit"
  /\ submits' = [submits EXCEPT ![i] = @ + 1]
  /\ \/ /\ cellState' = [cellState EXCEPT ![i] = "SUBMIT_FAILED"]
        /\ pc' = "catch"
        /\ store' = store
     \/ /\ cellState' = [cellState EXCEPT ![i] = "SUBMITTED"]
        /\ pc' = "wait"
        /\ store' \in {store, store \cup {Note(script, "this", i)}}
  /\ UNCHANGED <<utilVars, script, i, fetches, observed, outcome, counts, results, report, classifyVars>>

\* Mutant of Wait: addTreatmentNote is not awaited, the fetch goes out while
\* the submit is still outstanding.
WaitNotAwaitingSubmit ==
  /\ pc \in {"submit", "wait"}
  /\ cellState' = [cellState EXCEPT ![i] = "POLLING"]
  /\ fetches' = [fetches EXCEPT ![i] = @ + 1]
  /\ pc' = "fetch"
  /\ UNCHANGED <<utilVars, script, i, store, submits, observed, outcome, counts, results,
                 report, classifyVars>>

\* The setTimeout has elapsed: issue the first fetch.
Wait ==
  /\ pc = "wait"
  /\ cellState' = [cellState EXCEPT ![i] = "POLLING"]
  /\ fetches' = [fetches EXCEPT ![i] = @ + 1]
  /\ pc' = "fetch"
  /\ UNCHANGED <<utilVars, script, i, store, submits, observed, outcome, counts, results,
                 report, classifyVars>>

\* Mutant of FetchMiss: the lookup is repeated until the note shows up.
FetchMissPollsForever ==
  /\ fetches' = [fetches EXCEPT ![i] = @ + 1]
  /\ pc' = "fetch"
  /\ UNCHANGED <<cellState, observed>>

\* What the script does when the lookup found nothing in the notes.
FetchMiss ==
  IF fetches[i] < MaxFetches(script)
  THEN /\ fetches' = [fetches EXCEPT ![i] = @ + 1]
       /\ pc' = "fetch"
       /\ UNCHANGED <<cellState, observed>>
  ELSE /\ cellState' = [cellState EXCEPT ![i] = "POLL_EXHAUSTED"]
       /\ observed' = [observed EXCEPT ![i] = NotFoundObservation]
       /\ pc' = "notfound"
       /\ UNCHANGED fetches

\* The outstanding fetch settles: it rejects, or it resolves with a list of
\* notes in which the lookup by marker finds a note or finds none.  Which of
\* the store's notes are in the list, in which order and with which text is
\* the store's choice.
Fetch ==
  /\ pc = "fetch"
  /\ \/ /\ cellState' = [cellState EXCEPT ![i] = "FETCH_FAILED"]
        /\ pc' = "catch"
        /\ UNCHANGED <<fetches, observed>>
     \/ \E n \in Matching(script, "this", i), tc \in TextClassesOf(script) :
          /\ observed' = [observed EXCEPT ![i] =
                            [kind |-> "payload", owner |-> n.owner, text |-> tc]]
          /\ cellState' = [cellState EXCEPT ![i] = "OBSERVED"]
          /\ pc' = "classify"
          /\ UNCHANGED fetches
     \/ FetchMiss
  /\ UNCHANGED <<utilVars, script, i, store, submits, outcome, counts, results, report, classifyVars>>

\* The note was found: compare, print, count, record.
Classify ==
  /\ pc = "classify"
  /\ LET tc == observed[i].text IN
       /\ outcome' = [outcome EXCEPT ![i] = ClassifyOutcome(script, tc)]
       /\ counts' = Bump(ClassifyCounter(script, tc))
       /\ results' = Push(script, [name |-> i, retrieved |-> "TEXT", matches |-> (tc = "same")])
  /\ cellState' = [cellState EXCEPT ![i] = "CLASSIFIED"]
  /\ i' = i + 1
  /\ pc' = "loop"
  /\ UNCHANGED <<utilVars, script, store, submits, fetches, observed, report, classifyVars>>

\* Mutant of NotFound: the not-found path forgets its results.push.
NotFoundWithoutPush ==
  /\ pc = "notfound"
  /\ outcome' = [outcome EXCEPT ![i] = "NOT_FOUND"]
  /\ counts' = Bump("fail")
  /\ cellState' = [cellState EXCEPT ![i] = "NOT_FOUND"]
  /\ i' = i + 1
  /\ pc' = "loop"
  /\ UNCHANGED <<utilVars, script, store, submits, fetches, observed, results, report, classifyVars>>

\* "Note not found after adding".
NotFound ==
  /\ pc = "notfound"
  /\ outcome' = [outcome EXCEPT ![i] = "NOT_FOUND"]
  /\ counts' = Bump("fail")
  /\ results' = Push(script, [name |-> i, retrieved |-> "NOT FOUND", matches |-> FALSE])
  /\ cellState' = [cellState EXCEPT ![i] = "NOT_FOUND"]
  /\ i' = i + 1
  /\ pc' = "loop"
  /\ UNCHANGED <<utilVars, script, store, submits, fetches, observed, report, classifyVars>>

\* Mutant of Catch: the failed cell is tried again.
CatchRetries ==
  /\ pc = "catch"
  /\ pc' = "submit"
  /\ UNCHANGED <<utilVars, script, i, store, cellState, submits, fetches, observed, outcome,
                 counts, results, report, classifyVars>>

\* Mutant of Catch: the failure is reported like a note that was not found.
CatchReportsNotFound ==
  /\ pc = "catch"
  /\ outcome' = [outcome EXCEPT ![i] = "NOT_FOUND"]
  /\ counts' = Bump("fail")
  /\ results' = Push(script, [name |-> i, retrieved |-> "NOT FOUND", matches |-> FALSE])
  /\ i' = i + 1
  /\ pc' = "loop"
  /\ UNCHANGED <<utilVars, script, store, cellState, submits, fetches, observed, report, classifyVars>>

\* Mutant of Catch: no try/catch around the loop body, the error reaches the
\* outer catch.
CatchRethrows ==
  /\ pc = "catch"
  /\ pc' = "outerCatch"
  /\ UNCHANGED <<utilVars, script, i, store, cellState, submits, fetches, observed, outcome,
                 counts, results, report, classifyVars>>

\* Mutant of Catch: the catch block prints the error and counts nothing.
CatchWithoutCount ==
  /\ pc = "catch"
  /\ outcome' = [outcome EXCEPT ![i] = "ERROR"]
  /\ results' = Push(script, [name |-> i, retrieved |-> "ERROR", matches |-> FALSE])
  /\ i' = i + 1
  /\ pc' = "loop"
  /\ UNCHANGED <<utilVars, script, store, cellState, submits, fetches, observed, counts,
                 report, classifyVars>>

\* The catch block of the loop body.
Catch ==
  /\ pc = "catch"
  /\ outcome' = [outcome EXCEPT ![i] = "ERROR"]
  /\ counts' = Bump("fail")
  /\ results' = Push(script, [name |-> i, retrieved |-> "ERROR", matches |-> FALSE])
  /\ i' = i + 1
  /\ pc' = "loop"
  /\ UNCHANGED <<utilVars, script, store, cellState, submits, fetches, observed, report, classifyVars>>

\* What follows the summary: testReverseEncodingWithHeaders runs one more
\* test outside the loop, the other scripts are done.
AfterSummary(s) == IF s = "testReverseEncodingWithHeaders" THEN "bonus" ELSE "done"

\* Math.round((count / testCases.length) * 100)
Percent(count) == (200 * count + NumCases) \div (2 * NumCases)

\* The count the "Success Rate" line is computed from: successCount, or
\* totalSuccess = perfect/success + partial.
RatedCount(s, k) ==
  IF s \in {"testPhpSdkMimicry", "testUnicodeEntities"} THEN k.success + k.partial
  ELSE k.success

\* Mutant of SummaryVerdict: the last else branch recommends as well.
SummaryVerdictAlwaysRecommends(s, k) ==
  IF k.success = NumCases THEN "all" ELSE "some"

\* The branch of the summary's if chain: "all" is the branch that
\* recommends the approach outright, "none" the last else, which says that
\* the approach did not help.
SummaryVerdict(s, k) ==
  CASE s = "testHeaderFix" ->
         IF k.success = NumCases THEN "all"
         ELSE IF k.success > 0 THEN "some" ELSE "none"
    [] s \in {"testReverseEncoding", "testReverseEncodingWithHeaders"} ->
         IF k.success = NumCases THEN "all"
         ELSE IF k.success > k.fail THEN "most"
         ELSE IF k.success > 0 THEN "some" ELSE "none"
    [] s = "testPhpSdkMimicry" ->
         IF k.success = NumCases THEN "all"
         ELSE IF k.success > 0 THEN "some"
         ELSE IF k.success + k.partial > k.fail THEN "most" ELSE "none"
    [] s = "testUnicodeEntities" ->
         IF k.success = NumCases THEN "all"
         ELSE IF k.success + k.partial = NumCases THEN "preserved"
         ELSE IF k.success + k.partial > k.fail THEN "most" ELSE "none"
    [] OTHER -> IF k.success = NumCases THEN "all" ELSE "none"

\* The summary after the loop.
Summary ==
  /\ pc = "summary"
  /\ report' = [rate |-> Percent(RatedCount(script, counts)),
                verdict |-> SummaryVerdict(script, counts)]
  /\ pc' = AfterSummary(script)
  /\ UNCHANGED <<utilVars, script, i, store, cellState, submits, fetches, observed, outcome,
                 counts, results, classifyVars>>

\* The test with no charset header after the loop: its calls are not inside
\* a try of their own, a rejected call reaches the outer catch.  Its marker
\* "[NO_CHARSET TEST]" is none of the loop's markers, so its note is left out
\* of store.
Bonus ==
  /\ pc = "bonus"
  /\ pc' \in {"done", "outerCatch"}
  /\ UNCHANGED <<utilVars, script, i, store, cellState, submits, fetches, observed, outcome,
                 counts, results, report, classifyVars>>

\* The script is started again; its locals are fresh, the store keeps its notes.
Restart ==
  /\ pc \in {"done", "returned", "outerCatch"}
  /\ pc' = "setup"
  /\ store' = AgedStore(script)
  /\ i' = 1
  /\ cellState' = AllCells("PENDING")
  /\ submits' = AllCells(0)
  /\ fetches' = AllCells(0)
  /\ observed' = AllCells(NoObservation)
  /\ outcome' = AllCells("none")
  /\ counts' = NoCounts
  /\ results' = <<>>
  /\ report' = NoReport
  /\ UNCHANGED <<utilVars, script, classifyVars>>

----------------------------------------------------------------------------
\* The text classifier.

\* Code points of the drawn strings.
Alphabet == {"e", "A~", "A^", "a^", "EUR", "EMPTY"}

Strings(n) == UNION {[1..k -> Alphabet] : k \in 0..n}

\* Texts with the HTML entities the classifier looks for.
EntityTexts ==
  { <<"&", "l", "t", ";">>, <<"&", "a", "m", "p", ";">>, <<"A^", "&", "l", "t", ";">> }

\* Texts with the symbols and the mangled symbols of the pattern list.
SymbolTexts ==
  { <<"DEG">>, <<"A^", "DEG">>, <<"QUOT">>, <<"a^", "EUR", "OE">>, <<"BUL">>,
    <<"a^", "EUR", "CENT">>, <<"EUR", "DEG">>, <<"a^", "SBQUO", "NOT", "A^", "DEG">> }

\* The corpus: a word with an accent, a degree sign, a plus-minus sign, a
\* bullet, smart quotes.
Cafe == <<"c", "a", "f", "e'">>
Degrees == <<"4", "5", "DEG", "F">>
PlusMinus == <<"PM", "5", " ", "m", "m", "H", "g">>
Bullet == <<"BUL", " ", "b", "u", "l", "l", "e", "t">>
SmartQuotes ==
  <<"LDQUO", "s", "m", "a", "r", "t", " ", "q", "u", "o", "t", "e", "s", "RDQUO">>
Corpus == {Cafe, Degrees, PlusMinus, Bullet, SmartQuotes}

\* The text with the degree sign as the store hands it back.
DegreesMangled == <<"4", "5", "A^", "DEG", "F">>

Texts == Strings(MaxLen) \cup EntityTexts \cup SymbolTexts \cup {Degrees, DegreesMangled}

\* text.includes(part)
Includes(text, part) ==
  \E k \in 0..(Len(text) - Len(part)) : SubSeq(text, k + 1, k + Len(part)) = part

\* Mutant of patternAnalysis: the symbol check looks for â€ only.
patternAnalysisWithoutCircumflex(orig, retr) ==
  LET doubleEncoding == Includes(retr, <<"A~">>)
      symbol == Includes(retr, <<"a^", "EUR">>)
      entities == Includes(retr, <<"&", "l", "t", ";">>) \/ Includes(retr, <<"&", "a", "m", "p", ";">>)
  IN [isCorrupted |-> TRUE,
      corruptionType |-> IF entities THEN "html-entities"
                         ELSE IF symbol THEN "symbol-corruption"
                         ELSE IF doubleEncoding THEN "utf8-double-encoding"
                         ELSE "unknown",
      suggestions |-> <<>>]

\* The checks analyseCorruption runs on texts that differ, in the order of
\* the code: each check that fires overwrites corruptionType and appends its
\* suggestions.
patternAnalysis(orig, retr) ==
  LET doubleEncoding == Includes(retr, <<"A~">>)
      symbol == Includes(retr, <<"A^">>) \/ Includes(retr, <<"a^", "EUR">>)
      entities == Includes(retr, <<"&", "l", "t", ";">>) \/ Includes(retr, <<"&", "a", "m", "p", ";">>)
      type0 == "unknown"
      type1 == IF doubleEncoding THEN "utf8-double-encoding" ELSE type0
      type2 == IF symbol THEN "symbol-corruption" ELSE type1
      type3 == IF entities THEN "html-entities" ELSE type2
  IN [isCorrupted |-> TRUE,
      corruptionType |-> type3,
      suggestions |->
        (IF doubleEncoding THEN <<"sanitise before sending", "fix after retrieving">> ELSE <<>>)
        \o (IF symbol THEN <<"hybrid strategy or images">> ELSE <<>>)
        \o (IF entities THEN <<"HTML entities detected">> ELSE <<>>)
        \o (IF Len(retr) # Len(orig) THEN <<"length mismatch">> ELSE <<>>)]

\* Mutant of analyseCorruption: the equality check in front is missing.
analyseCorruptionWithoutEqualityCheck(orig, retr) == patternAnalysis(orig, retr)

\* analyseCorruption of unicode-strategies: equal texts are not corrupted,
\* texts that differ go through the pattern checks.
analyseCorruption(orig, retr) ==
  IF orig = retr
  THEN [isCorrupted |-> FALSE, corruptionType |-> "none", suggestions |-> <<>>]
  ELSE patternAnalysis(orig, retr)

\* originalChars[j] || "∅", with j counted from 1.
CharAt(chars, j) == IF j <= Len(chars) THEN chars[j] ELSE "EMPTY"

LongerLen(a, b) == IF Len(a) >= Len(b) THEN Len(a) ELSE Len(b)

\* The positions the character analysis prints: none for equal texts,
\* otherwise every position (from 0) where the two characters differ.
charAnalysis(orig, retr) ==
  IF orig = retr THEN <<>>
  ELSE LET all == [j \in 1..LongerLen(orig, retr) |->
                     [position |-> j - 1, expected |-> CharAt(orig, j), actual |-> CharAt(retr, j)]]
       IN SelectSeq(all, LAMBDA d : d.expected # d.actual)

\* The else-if chain of testHeaderFix on a retrieved text that differs from
\* the note that was sent.
headerFixCorruption(retr) ==
  IF Includes(retr, <<"A~">>) THEN "double encoding"
  ELSE IF Includes(retr, <<"A^">>) THEN "Latin-1/UTF-8 confusion"
  ELSE IF Includes(retr, <<"a^", "EUR">>) THEN "symbol corruption"
  ELSE "unknown mangling"

\* The sentinel texts testUnicodeNotes records for a failed or missing note.
ErrorText == <<"E", "R", "R", "O", "R">>
NotFoundText == <<"N", "O", "T", " ", "F", "O", "U", "N", "D">>

\* const patterns = [...] of testUnicodeNotes' analyseCorruption.
patterns ==
  << [from |-> <<"QUOT">>, to |-> <<"a^", "EUR", "OE">>, name |-> "Smart quote corruption"],
     [from |-> <<"QUOT">>, to |-> <<"a^", "EUR">>, name |-> "Smart quote corruption"],
     [from |-> <<"EMDASH">>, to |-> <<"a^", "EUR", "QUOT">>, name |-> "Em dash corruption"],
     [from |-> <<"ENDASH">>, to |-> <<"a^", "EUR", "QUOT">>, name |-> "En dash corruption"],
     [from |-> <<"DEG">>, to |-> <<"A^", "DEG">>, name |-> "Degree symbol corruption"],
     [from |-> <<"PM">>, to |-> <<"A^", "PM">>, name |-> "Plus-minus corruption"],
     [from |-> <<"EUR">>, to |-> <<"a^", "SBQUO", "NOT">>, name |-> "Euro symbol corruption"],
     [from |-> <<"BUL">>, to |-> <<"a^", "EUR", "CENT">>, name |-> "Bullet point corruption"] >>

\* The patterns that apply to a pair of texts, by their place in the list.
PatternHits(orig, retr) ==
  {k \in 1..Len(patterns) : Includes(orig, patterns[k].from) /\ Includes(retr, patterns[k].to)}

Least(S) == CHOOSE k \in S : \A m \in S : k <= m

\* Mutant of analyseCorruptionString: the last return is missing.
analyseCorruptionStringWithoutDefault(orig, retr) ==
  IF retr = ErrorText THEN "API Error"
  ELSE IF retr = NotFoundText THEN "Note not found"
  ELSE IF PatternHits(orig, retr) # {} THEN patterns[Least(PatternHits(orig, retr))].name
  ELSE IF Includes(retr, <<"a^", "EUR">>) THEN "UTF-8 encoding corruption"
  ELSE IF Includes(retr, <<"A^">>) THEN "Latin-1/UTF-8 confusion"
  ELSE IF \/ Includes(retr, <<"&", "l", "t", ";">>)
          \/ Includes(retr, <<"&", "g", "t", ";">>)
          \/ Includes(retr, <<"&", "a", "m", "p", ";">>) THEN "HTML entity encoding"
  ELSE IF Len(orig) # Len(retr) THEN "Length mismatch"
  ELSE "undefined"

\* analyseCorruption of testUnicodeNotes, which returns the name of the
\* corruption: the sentinels, then the first pattern of the list that
\* applies, then the general checks in their order.
analyseCorruptionString(orig, retr) ==
  IF retr = ErrorText THEN "API Error"
  ELSE IF retr = NotFoundText THEN "Note not found"
  ELSE IF PatternHits(orig, retr) # {} THEN patterns[Least(PatternHits(orig, retr))].name
  ELSE IF Includes(retr, <<"a^", "EUR">>) THEN "UTF-8 encoding corruption"
  ELSE IF Includes(retr, <<"A^">>) THEN "Latin-1/UTF-8 confusion"
  ELSE IF \/ Includes(retr, <<"&", "l", "t", ";">>)
          \/ Includes(retr, <<"&", "g", "t", ";">>)
          \/ Includes(retr, <<"&", "a", "m", "p", ";">>) THEN "HTML entity encoding"
  ELSE IF Len(orig) # Len(retr) THEN "Length mismatch"
  ELSE "Unknown character corruption"

HarnessIdle ==
  /\ script = "none"
  /\ pc = "idle"
  /\ store = {}
  /\ FreshLocals
  /\ UtilIdle

InitClassify ==
  /\ HarnessIdle
  /\ original \in Texts
  /\ retrieved \in Texts
  /\ analysis = NoAnalysis
  /\ payload = <<>>

\* The comparison and the analysis of one retrieved text.
Analyse ==
  /\ analysis = NoAnalysis
  /\ analysis' = [matches |-> (retrieved = original),
                  corruption |-> analyseCorruption(original, retrieved),
                  headerFix |-> IF retrieved = original THEN "none"
                                ELSE headerFixCorruption(retrieved),
                  name |-> IF retrieved = original THEN "none"
                           ELSE analyseCorruptionString(original, retrieved),
                  diff |-> charAnalysis(original, retrieved)]
  /\ UNCHANGED <<utilVars, harnessVars, original, retrieved, payload>>

NextClassify == Analyse

SpecClassify == InitClassify /\ [][NextClassify]_vars

----------------------------------------------------------------------------
\* Transcoding.  A text is a JavaScript string, a sequence of UTF-16 code
\* units; CharTable gives the code unit of each character the model writes.

CharTable ==
  { <<" ", 32>>, <<"QUOT", 34>>, <<"&", 38>>, <<"*", 42>>, <<"+", 43>>, <<"-", 45>>,
    <<"/", 47>>, <<"4", 52>>, <<"5", 53>>, <<";", 59>>, <<"?", 63>>,
    <<"E", 69>>, <<"F", 70>>, <<"H", 72>>, <<"R", 82>>, <<"U", 85>>, <<"[", 91>>, <<"]", 93>>,
    <<"a", 97>>, <<"b", 98>>, <<"c", 99>>, <<"d", 100>>, <<"e", 101>>, <<"f", 102>>,
    <<"g", 103>>,
    <<"l", 108>>, <<"m", 109>>, <<"o", 111>>, <<"p", 112>>, <<"q", 113>>, <<"r", 114>>,
    <<"s", 115>>, <<"t", 116>>, <<"u", 117>>,
    <<"x80", 128>>, <<"x82", 130>>, <<"x83", 131>>, <<"x98", 152>>, <<"x9C", 156>>,
    <<"x9D", 157>>, <<"x9F", 159>>,
    <<"CENT", 162>>, <<"COPY", 169>>, <<"NOT", 172>>, <<"MACR", 175>>, <<"DEG", 176>>,
    <<"PM", 177>>, <<"HALF", 189>>, <<"IQUEST", 191>>,
    <<"A^", 194>>, <<"A~", 195>>, <<"a^", 226>>, <<"e'", 233>>, <<"i:", 239>>, <<"ETH", 240>>,
    <<"OE", 339>>, <<"s^", 353>>,
    <<"ACUTE", 769>>, <<"CIRC", 770>>, <<"CARON", 780>>, <<"ENDASH", 8211>>, <<"EMDASH", 8212>>, <<"SBQUO", 8218>>,
    <<"LDQUO", 8220>>, <<"RDQUO", 8221>>, <<"BUL", 8226>>, <<"EUR", 8364>>, <<"EMPTY", 8709>>,
    <<"HI", 55357>>, <<"LO", 56832>> }

\* text.charCodeAt(i) and String.fromCharCode(code)
charCodeAt(ch) == (CHOOSE p \in CharTable : p[1] = ch)[2]
fromCharCode(code) == (CHOOSE p \in CharTable : p[2] = code)[1]

IsHighSurrogate(u) == u >= 55296 /\ u <= 56319
IsLowSurrogate(u) == u >= 56320 /\ u <= 57343

\* The scalar values TextEncoder reads from a string: a surrogate pair is one
\* value, a surrogate on its own is read as U+FFFD.
RECURSIVE ScalarValues(_)
ScalarValues(units) ==
  IF units = <<>> THEN <<>>
  ELSE IF Len(units) > 1 /\ IsHighSurrogate(units[1]) /\ IsLowSurrogate(units[2])
  THEN <<65536 + (units[1] - 55296) * 1024 + (units[2] - 56320)>>
       \o ScalarValues(SubSeq(units, 3, Len(units)))
  ELSE IF IsHighSurrogate(units[1]) \/ IsLowSurrogate(units[1])
  THEN <<65533>> \o ScalarValues(Tail(units))
  ELSE <<units[1]>> \o ScalarValues(Tail(units))

\* Mutant of Utf8Of: the values up to U+00FF are taken for single bytes.
Utf8OfWithLatin1SingleByte(cp) ==
  IF cp < 256 THEN <<cp>>
  ELSE IF cp < 2048 THEN <<192 + (cp \div 64), 128 + (cp % 64)>>
  ELSE IF cp < 65536
  THEN <<224 + (cp \div 4096), 128 + ((cp \div 64) % 64), 128 + (cp % 64)>>
  ELSE <<240 + (cp \div 262144), 128 + ((cp \div 4096) % 64),
         128 + ((cp \div 64) % 64), 128 + (cp % 64)>>

\* The UTF-8 bytes of one scalar value.
Utf8Of(cp) ==
  IF cp < 128 THEN <<cp>>
  ELSE IF cp < 2048 THEN <<192 + (cp \div 64), 128 + (cp % 64)>>
  ELSE IF cp < 65536
  THEN <<224 + (cp \div 4096), 128 + ((cp \div 64) % 64), 128 + (cp % 64)>>
  ELSE <<240 + (cp \div 262144), 128 + ((cp \div 4096) % 64),
         128 + ((cp \div 64) % 64), 128 + (cp % 64)>>

RECURSIVE Flatten(_)
Flatten(seqs) == IF seqs = <<>> THEN <<>> ELSE Head(seqs) \o Flatten(Tail(seqs))

\* new TextEncoder().encode(text)
TextEncoderEncode(text) ==
  LET values == ScalarValues([k \in 1..Len(text) |-> charCodeAt(text[k])])
  IN Flatten([k \in 1..Len(values) |-> Utf8Of(values[k])])

\* utf8ToLatin1: one character per UTF-8 byte of the text, the character
\* whose code is the byte.
utf8ToLatin1(text) ==
  LET utf8Bytes == TextEncoderEncode(text)
  IN [k \in 1..Len(utf8Bytes) |-> fromCharCode(utf8Bytes[k])]

----------------------------------------------------------------------------
\* The round trip through a store that hands back the UTF-8 bytes of what was
\* submitted as one character each.  ASCII has one byte per character, equal
\* to its code, so such a store passes ASCII through and mangles exactly the
\* runs of other characters.

\* Characters of the drawn texts: ASCII, two-byte, three-byte, and the two
\* halves of a surrogate pair.
TranscodeAlphabet == {"c", "e'", "DEG", "BUL", "HI", "LO"}

MockTexts == Corpus \cup UNION {[1..k -> TranscodeAlphabet] : k \in 0..MaxLen}

\* The script that sends the text as it is, and the script that sends it
\* reverse-encoded.
MockScripts == {"testHeaderFix", "testReverseEncoding"}

\* `[HEADER TEST n] `, `[REVERSE TEST n] `
MockMarker == <<"[", "]", " ">>

\* The text a script puts behind the marker: testCase.text, or
\* testCase.reverseEncoded = utf8ToLatin1(original).
Encoded(s, text) == IF s = "testReverseEncoding" THEN utf8ToLatin1(text) ELSE text

\* text.replace(part, ""): the first occurrence of part is taken out.
RemoveFirst(text, part) ==
  IF Includes(text, part)
  THEN LET k == Least({j \in 0..(Len(text) - Len(part)) :
                        SubSeq(text, j + 1, j + Len(part)) = part})
       IN SubSeq(text, 1, k) \o SubSeq(text, k + Len(part) + 1, Len(text))
  ELSE text

\* What a script compares: testHeaderFix the whole retrieved note with the
\* note it sent, testReverseEncoding the retrieved note without the marker
\* with the original text.
Expected(s, text) == IF s = "testReverseEncoding" THEN text ELSE MockMarker \o text
NoteContent(s, text) == IF s = "testReverseEncoding" THEN RemoveFirst(text, MockMarker) ELSE text

\* How the compared texts relate: equal, different with one of the patterns
\* Ã, â€, Â in it, different without.
TextClass(expected, content) ==
  IF content = expected THEN "same"
  ELSE IF \/ Includes(content, <<"A~">>)
          \/ Includes(content, <<"a^", "EUR">>)
          \/ Includes(content, <<"A^">>) THEN "pattern"
  ELSE "clean"

InitMock ==
  /\ script \in MockScripts
  /\ pc = "encode"
  /\ store = {}
  /\ FreshLocals
  /\ UtilIdle
  /\ original \in MockTexts
  /\ retrieved = <<>>
  /\ analysis = NoAnalysis
  /\ payload = <<>>

\* addTreatmentNote with the marked text.
MockSubmit ==
  /\ pc = "encode"
  /\ payload' = MockMarker \o Encoded(script, original)
  /\ pc' = "stored"
  /\ UNCHANGED <<utilVars, script, i, store, cellState, submits, fetches, observed, outcome,
                 counts, results, report, original, retrieved, analysis>>

\* What the store hands back.
MockStoreFetch(submitted) == utf8ToLatin1(submitted)

\* getAllTreatmentNotes and the lookup of the note.
MockFetch ==
  /\ pc = "stored"
  /\ retrieved' = MockStoreFetch(payload)
  /\ pc' = "fetched"
  /\ UNCHANGED <<utilVars, script, i, store, cellState, submits, fetches, observed, outcome,
                 counts, results, report, original, analysis, payload>>

\* The comparison, the outcome line and the analysis of what came back.
MockCompare ==
  /\ pc = "fetched"
  /\ LET expected == Expected(script, original)
         content == NoteContent(script, retrieved)
     IN analysis' = [matches |-> (content = expected),
                     outcome |-> ClassifyOutcome(script, TextClass(expected, content)),
                     corruption |-> analyseCorruption(expected, content),
                     headerFix |-> IF content = expected THEN "none"
                                   ELSE headerFixCorruption(content),
                     name |-> IF content = expected THEN "none"
                              ELSE analyseCorruptionString(expected, content),
                     diff |-> charAnalysis(expected, content)]
  /\ pc' = "compared"
  /\ UNCHANGED <<utilVars, script, i, store, cellState, submits, fetches, observed, outcome,
                 counts, results, report, original, retrieved, payload>>

NextMock == MockSubmit \/ MockFetch \/ MockCompare

SpecMock == InitMock /\ [][NextMock]_vars

----------------------------------------------------------------------------
\* The \uXXXX escapes of testUtf16Encoding.

HexDigits == <<"0", "1", "2", "3", "4", "5", "6", "7", "8", "9", "a", "b", "c", "d", "e", "f">>
UpperHexDigits ==
  <<"0", "1", "2", "3", "4", "5", "6", "7", "8", "9", "A", "B", "C", "D", "E", "F">>

\* code.toString(16)
RECURSIVE toString16(_)
toString16(code) ==
  IF code < 16 THEN <<HexDigits[code + 1]>>
  ELSE toString16(code \div 16) \o <<HexDigits[(code % 16) + 1]>>

\* digits.padStart(length, ch)
RECURSIVE padStart(_, _, _)
padStart(digits, length, ch) ==
  IF Len(digits) >= length THEN digits ELSE padStart(<<ch>> \o digits, length, ch)

\* Mutant of textToUtf16Hex: the digits are not padded to four.
textToUtf16HexWithoutPadding(text) ==
  Flatten([k \in 1..Len(text) |-> <<"\\", "u">> \o toString16(charCodeAt(text[k]))])

\* textToUtf16Hex: "\\u" and four hex digits for every code unit of the text.
textToUtf16Hex(text) ==
  Flatten([k \in 1..Len(text) |->
             <<"\\", "u">> \o padStart(toString16(charCodeAt(text[k])), 4, "0")])

IsHexDigit(ch) ==
  \E d \in 1..16 : ch = HexDigits[d] \/ ch = UpperHexDigits[d]

HexValue(ch) ==
  (CHOOSE d \in 1..16 : ch = HexDigits[d] \/ ch = UpperHexDigits[d]) - 1

\* The text starts with a backslash, a u and four hex digits.
StartsWithEscape(text) ==
  /\ Len(text) >= 6
  /\ text[1] = "\\"
  /\ text[2] = "u"
  /\ \A k \in 3..6 : IsHexDigit(text[k])

\* The reverse of the escapes: every \uXXXX becomes the code unit it names,
\* every other character stays.
RECURSIVE fromUtf16LEEscapes(_)
fromUtf16LEEscapes(text) ==
  IF text = <<>> THEN <<>>
  ELSE IF StartsWithEscape(text)
  THEN <<fromCharCode(4096 * HexValue(text[3]) + 256 * HexValue(text[4])
                      + 16 * HexValue(text[5]) + HexValue(text[6]))>>
       \o fromUtf16LEEscapes(SubSeq(text, 7, Len(text)))
  ELSE <<Head(text)>> \o fromUtf16LEEscapes(Tail(text))

InitEscapes ==
  /\ HarnessIdle
  /\ original \in MockTexts
  /\ retrieved = <<>>
  /\ analysis = NoAnalysis
  /\ payload = <<>>

\* encoded: textToUtf16Hex(original)
EscapeEncode ==
  /\ payload = <<>>
  /\ analysis = NoAnalysis
  /\ payload' = textToUtf16Hex(original)
  /\ analysis' = [kind |-> "encoded"]
  /\ UNCHANGED <<utilVars, harnessVars, original, retrieved>>

\* The escapes are decoded again.
EscapeDecode ==
  /\ analysis = [kind |-> "encoded"]
  /\ retrieved' = fromUtf16LEEscapes(payload)
  /\ analysis' = [kind |-> "decoded"]
  /\ UNCHANGED <<utilVars, harnessVars, original, payload>>

NextEscapes == EscapeEncode \/ EscapeDecode

SpecEscapes == InitEscapes /\ [][NextEscapes]_vars

----------------------------------------------------------------------------
\* The safe substitutions of unicode-strategies.ts.

\* SAFE_SUBSTITUTIONS, the entries of the characters drawn below: every key is
\* one code unit and every replacement is ASCII.
SAFE_SUBSTITUTIONS ==
  [ch \in {"EMDASH", "ENDASH", "DEG", "PM", "EUR", "BUL", "e'", "a^"} |->
     CASE ch = "EMDASH" -> <<" ", "-", " ">>
       [] ch = "ENDASH" -> <<"-">>
       [] ch = "DEG" -> <<" ", "d", "e", "g", "r", "e", "e", "s">>
       [] ch = "PM" -> <<"+", "/", "-">>
       [] ch = "EUR" -> <<"E", "U", "R">>
       [] ch = "BUL" -> <<"*", " ">>
       [] ch = "e'" -> <<"e">>
       [] ch = "a^" -> <<"a">>]

\* result.replace(regex, replacement) for every entry of the table: a key is
\* one code unit and no replacement holds a key, so the passes come to one
\* replacement for each code unit.
applySubstitutions(text) ==
  Flatten([k \in 1..Len(text) |->
             IF text[k] \in DOMAIN SAFE_SUBSTITUTIONS
             THEN SAFE_SUBSTITUTIONS[text[k]] ELSE <<text[k]>>])

\* text.normalize('NFKD'): e-acute, a-circumflex and s-caron fall apart into
\* the base letter and a combining mark; the other characters drawn here
\* (eth, oe, the surrogates, ASCII) have no decomposition.
normalizeNFKD(text) ==
  Flatten([k \in 1..Len(text) |->
             CASE text[k] = "e'" -> <<"e", "ACUTE">>
               [] text[k] = "a^" -> <<"a", "CIRC">>
               [] text[k] = "s^" -> <<"s", "CARON">>
               [] OTHER -> <<text[k]>>])

\* /[\u0300-\u036f]/
IsCombiningMark(ch) == charCodeAt(ch) >= 768 /\ charCodeAt(ch) <= 879

\* /[^\x00-\x7F]/
IsNonAscii(ch) == charCodeAt(ch) > 127

\* result.replace(/[\u0300-\u036f]/g, '')
removeCombiningMarks(text) == SelectSeq(text, LAMBDA ch : ~IsCombiningMark(ch))

\* result.replace(/[^\x00-\x7F]/g, '?')
replaceNonAscii(text) ==
  [k \in 1..Len(text) |-> IF IsNonAscii(text[k]) THEN "?" ELSE text[k]]

\* Mutant of sanitiseUnicodeForNookal: the last replacement is left out.
sanitiseWithoutFallback(text) ==
  removeCombiningMarks(normalizeNFKD(applySubstitutions(text)))

sanitiseUnicodeForNookal(text) ==
  replaceNonAscii(removeCombiningMarks(normalizeNFKD(applySubstitutions(text))))

SanitiseAlphabet ==
  {"c", "e'", "a^", "s^", "ETH", "OE", "ENDASH", "EMDASH", "DEG", "PM", "EUR", "BUL",
   "HI", "LO"}

SanitiseTexts ==
  UNION {[1..n -> SanitiseAlphabet] : n \in 0..MaxLen}

InitSanitise ==
  /\ HarnessIdle
  /\ original \in SanitiseTexts
  /\ retrieved = <<>>
  /\ analysis = NoAnalysis
  /\ payload = <<>>

\* process(test): sanitiseUnicodeForNookal applied to one text.
Sanitise ==
  /\ analysis = NoAnalysis
  /\ payload' = sanitiseUnicodeForNookal(original)
  /\ analysis' = [kind |-> "sanitised"]
  /\ UNCHANGED <<utilVars, harnessVars, original, retrieved>>

NextSanitise == Sanitise

SpecSanitise == InitSanitise /\ [][NextSanitise]_vars

----------------------------------------------------------------------------
\* NookalClient.makeRequest.  A message is the sequence of the pieces of its
\* text; an error text, an error code and a status text are one piece each.

ErrorTexts == {"Invalid API key", "Invalid patient ID"}
ErrorCodes == {"AUTH_01"}
Absent == "undefined"

\* What fetch settles with: a rejection, a response that is not ok, a body
\* that is not JSON, or a body in Nookal's response format.
JsonBodies ==
  [kind : {"json"},
   status : {"success", "failure", "error"},
   errorMessage : ErrorTexts \cup {Absent},
   errorCode : ErrorCodes \cup {Absent},
   error : ErrorTexts \cup {Absent},
   message : {"Request failed", Absent},
   results : {"results", Absent}]

Responses ==
  {[kind |-> "rejected", message |-> <<"Network error">>]}
    \cup [kind : {"notOk"}, status : {"400", "404"}, statusText : {"Bad Request", "Not Found"}]
    \cup {[kind |-> "notJson", text |-> "<html>"]}
    \cup JsonBodies

\* a || b for strings that may be undefined
OrElse(a, b) == IF a # Absent THEN a ELSE b

\* new Error(`HTTP ${response.status}: ${response.statusText}`)
HttpError(r) == <<"HTTP", " ", r.status, ":", " ", r.statusText>>

\* new Error(`Invalid JSON response: ${responseText.substring(0, 200)}`)
JsonError(r) == <<"Invalid JSON response", ":", " ", r.text>>

\* new Error(`API Error [${errorCode}]: ${errorMessage}`)
ApiError(r) ==
  <<"API", " ", "Error", " ", "[", OrElse(r.errorCode, "UNKNOWN"), "]", ":", " ",
    OrElse(r.errorMessage, OrElse(r.error, OrElse(r.message, "Unknown error")))>>

\* The error thrown inside the try block, if one is thrown.
Thrown(r) ==
  CASE r.kind = "rejected" -> r.message
    [] r.kind = "notOk" -> HttpError(r)
    [] r.kind = "notJson" -> JsonError(r)
    [] r.kind = "json" /\ r.status # "success" -> ApiError(r)
    [] OTHER -> <<>>

\* catch (error): new Error(`Nookal API request failed: ${error.message}`)
Rethrown(message) == <<"Nookal API request failed", ":", " ">> \o message

\* makeRequest after fetch has settled with r.
makeRequest(r) ==
  IF r.kind = "json" /\ r.status = "success"
  THEN [kind |-> "returned", data |-> IF r.results # Absent THEN r.results ELSE "[]"]
  ELSE [kind |-> "rejected", message |-> Rethrown(Thrown(r))]

\* The headers of the request, by method.
RequestInit(method) ==
  IF method = "GET"
  THEN [method |-> "GET", contentType |-> "application/json; charset=utf-8"]
  ELSE [method |-> "POST",
        contentType |-> "application/x-www-form-urlencoded; charset=UTF-8"]

InitClient ==
  /\ HarnessIdle
  /\ ClassifyIdle

\* getPatients (GET) or addTreatmentNote (POST): makeRequest up to the fetch.
ClientCall ==
  /\ analysis = NoAnalysis
  /\ \E method \in {"GET", "POST"} : payload' = RequestInit(method)
  /\ analysis' = [kind |-> "awaiting"]
  /\ UNCHANGED <<utilVars, harnessVars, original, retrieved>>

\* The fetch settles and makeRequest returns or throws.
ClientSettle ==
  /\ analysis = [kind |-> "awaiting"]
  /\ \E r \in Responses :
       /\ retrieved' = r
       /\ analysis' = makeRequest(r)
  /\ UNCHANGED <<utilVars, harnessVars, original, payload>>

NextClient == ClientCall \/ ClientSettle

SpecClient == InitClient /\ [][NextClient]_vars

----------------------------------------------------------------------------
\* The round trip of one test case of testUtf16Encoding ("UTF-16 Hex
\* Escapes"): the escapes are sent, and what comes back is compared with the
\* original text first and with the escapes second.

Utf16Marker == <<"[", "]", " ">>

\* The test cases: texts that are not empty.
Utf16Texts == MockTexts \ {<<>>}

\* What the store may hand back for a note: the note as it was sent, the note
\* with the escapes decoded, or the decoded note mangled.
Utf16StoreFetch(orig, submitted) ==
  {submitted, Utf16Marker \o orig, utf8ToLatin1(Utf16Marker \o orig)}

\* Mutant of Utf16TextClass: the escapes are never compared.
Utf16TextClassWithoutEncoded(orig, enc, content) == TextClass(orig, content)

\* The if chain on noteContent: the original, the encoded text, then the
\* patterns.
Utf16TextClass(orig, enc, content) ==
  IF content = orig THEN "same"
  ELSE IF content = enc THEN "encoded"
  ELSE TextClass(orig, content)

InitUtf16 ==
  /\ script = "testUtf16Encoding"
  /\ pc = "encode"
  /\ store = {}
  /\ FreshLocals
  /\ UtilIdle
  /\ original \in Utf16Texts
  /\ retrieved = <<>>
  /\ analysis = NoAnalysis
  /\ payload = <<>>

\* addTreatmentNote with `[UTF16 TEST n] ${testCase.encoded}`.
Utf16Submit ==
  /\ pc = "encode"
  /\ payload' = Utf16Marker \o textToUtf16Hex(original)
  /\ pc' = "stored"
  /\ UNCHANGED <<utilVars, script, i, store, cellState, submits, fetches, observed, outcome,
                 counts, results, report, original, retrieved, analysis>>

\* getAllTreatmentNotes and the lookup of the note.
Utf16Fetch ==
  /\ pc = "stored"
  /\ retrieved' \in Utf16StoreFetch(original, payload)
  /\ pc' = "fetched"
  /\ UNCHANGED <<utilVars, script, i, store, cellState, submits, fetches, observed, outcome,
                 counts, results, report, original, analysis, payload>>

\* The marker is taken off and the if chain picks the outcome and the counter.
Utf16Compare ==
  /\ pc = "fetched"
  /\ LET noteContent == RemoveFirst(retrieved, Utf16Marker)
         tc == Utf16TextClass(original, textToUtf16Hex(original), noteContent)
     IN /\ analysis' = [kind |-> "compared",
                        content |-> noteContent,
                        outcome |-> ClassifyOutcome(script, tc)]
        /\ counts' = Bump(ClassifyCounter(script, tc))
  /\ pc' = "compared"
  /\ UNCHANGED <<utilVars, script, i, store, cellState, submits, fetches, observed, outcome,
                 results, report, original, retrieved, payload>>

NextUtf16 == Utf16Submit \/ Utf16Fetch \/ Utf16Compare

SpecUtf16 == InitUtf16 /\ [][NextUtf16]_vars

----------------------------------------------------------------------------
\* The image scripts: testUnicodeImages sends every non-ASCII character as an
\* <img> tag with an SVG data URI, testSimpleImages sends hand-written notes
\* with GIF data URIs.  A tag is the pieces `<img`, ` src="`, `data:image`,
\* `/svg+xml;base64,` or `/gif;base64,`, and the rest up to `/>`.

ImageScripts == {"testUnicodeImages", "testSimpleImages"}

ImageTag(kind) ==
  <<"<img", " src=\"", "data:image",
    IF kind = "svg" THEN "/svg+xml;base64," ELSE "/gif;base64,", "...\" />">>

ImageAlphabet == {"c", "DEG", "PM"}
ImageTexts == UNION {[1..n -> ImageAlphabet] : n \in 1..MaxLen}

\* text.replace(/[^\x00-\x7F]/g, (char) => `<img src="${imageData}" ... />`)
convertUnicodeToImages(text) ==
  Flatten([k \in 1..Len(text) |->
             IF IsNonAscii(text[k]) THEN ImageTag("svg") ELSE <<text[k]>>])

\* testCase.withImages of testSimpleImages: the symbols as GIF tags.
withImages(text) ==
  Flatten([k \in 1..Len(text) |->
             IF IsNonAscii(text[k]) THEN ImageTag("gif") ELSE <<text[k]>>])

ImageMarker == <<"[", "]", " ">>

ImageNote(s, text) ==
  ImageMarker \o (IF s = "testUnicodeImages" THEN convertUnicodeToImages(text)
                  ELSE withImages(text))

\* The pieces of a note with every piece of the set taken out.
Without(text, pieces) == SelectSeq(text, LAMBDA ch : ch \notin pieces)

\* What the store may hand back for a note: the note as sent, the note with
\* the data URIs taken out of the tags, the note without the tags, the note
\* with the images stored in another format, or the original text mangled.
ImageStoreFetch(orig, note) ==
  { note,
    Without(note, {" src=\"", "data:image", "/svg+xml;base64,", "/gif;base64,"}),
    Without(note, {"<img", " src=\"", "data:image", "/svg+xml;base64,", "/gif;base64,",
                   "...\" />"}),
    [k \in 1..Len(note) |->
       IF note[k] \in {"/svg+xml;base64,", "/gif;base64,"} THEN "/png;base64," ELSE note[k]],
    utf8ToLatin1(ImageMarker \o orig) }

\* retrievedText.includes('<img src="data:image/svg+xml;base64,') and
\* noteContent.includes('<img src="data:image/')
ImagesPreserved(s, text) ==
  IF s = "testUnicodeImages"
  THEN Includes(text, <<"<img", " src=\"", "data:image", "/svg+xml;base64,">>)
  ELSE \E slash \in {"/svg+xml;base64,", "/gif;base64,", "/png;base64,"} :
         Includes(text, <<"<img", " src=\"", "data:image", slash>>)

\* The if chain of the script on the retrieved text: the line it prints and
\* the counter it increments.
ImageVerdict(s, orig, text) ==
  IF s = "testUnicodeImages"
  THEN IF ImagesPreserved(s, text)
       THEN [line |-> "EXCELLENT", counter |-> "success"]
       ELSE IF Includes(text, <<"<img">>) \/ Includes(text, <<"data:image">>)
       THEN [line |-> "GOOD", counter |-> "partial"]
       ELSE IF \/ Includes(text, <<"A~">>)
               \/ Includes(text, <<"a^", "EUR">>)
               \/ Includes(text, <<"A^">>)
       THEN [line |-> "CORRUPTED", counter |-> "fail"]
       ELSE [line |-> "UNCLEAR", counter |-> "partial"]
  ELSE LET noteContent == RemoveFirst(text, ImageMarker)
       IN IF ImagesPreserved(s, noteContent)
          THEN [line |-> "SUCCESS", counter |-> "success"]
          ELSE IF noteContent = withImages(orig)
          THEN [line |-> "PERFECT", counter |-> "success"]
          ELSE [line |-> "MODIFIED", counter |-> "fail"]

InitImages ==
  /\ script \in ImageScripts
  /\ pc = "encode"
  /\ store = {}
  /\ FreshLocals
  /\ UtilIdle
  /\ original \in ImageTexts
  /\ script = "testUnicodeImages" => \E k \in 1..Len(original) : IsNonAscii(original[k])
  /\ retrieved = <<>>
  /\ analysis = NoAnalysis
  /\ payload = <<>>

\* addTreatmentNote with the marked note.
ImageSubmit ==
  /\ pc = "encode"
  /\ payload' = ImageNote(script, original)
  /\ pc' = "stored"
  /\ UNCHANGED <<utilVars, script, i, store, cellState, submits, fetches, observed, outcome,
                 counts, results, report, original, retrieved, analysis>>

\* getAllTreatmentNotes and the lookup of the note.
ImageFetch ==
  /\ pc = "stored"
  /\ retrieved' \in ImageStoreFetch(original, payload)
  /\ pc' = "fetched"
  /\ UNCHANGED <<utilVars, script, i, store, cellState, submits, fetches, observed, outcome,
                 counts, results, report, original, analysis, payload>>

\* The if chain on the retrieved text.
ImageCompare ==
  /\ pc = "fetched"
  /\ LET verdict == ImageVerdict(script, original, retrieved)
     IN /\ analysis' = [kind |-> "compared", line |-> verdict.line]
        /\ counts' = Bump(verdict.counter)
  /\ pc' = "compared"
  /\ UNCHANGED <<utilVars, script, i, store, cellState, submits, fetches, observed, outcome,
                 results, report, original, retrieved, payload>>

NextImages == ImageSubmit \/ ImageFetch \/ ImageCompare

SpecImages == InitImages /\ [][NextImages]_vars

----------------------------------------------------------------------------
\* retry of utils.ts.  Delays are whole milliseconds far below 2^53, where
\* the arithmetic of JavaScript numbers is exact.

MaxAttempts == 3

\* The options a caller passes, and the defaults.
DefaultOptions ==
  [maxAttempts |-> 3, initialDelay |-> 1000, maxDelay |-> 10000, backoffFactor |-> 2]

RetryOptions ==
  [maxAttempts : 0..MaxAttempts, initialDelay : {1, 2}, maxDelay : {1, 3, 10},
   backoffFactor : {1, 2}]
    \cup {DefaultOptions}

\* What fn may resolve with, and what it may reject with: an Error, or a
\* value that is not an Error.
FnValues == {"value"}
FnErrors ==
  {[kind |-> "Error", message |-> "first"], [kind |-> "Error", message |-> "second"],
   [kind |-> "string", message |-> "thrown text"]}

\* error instanceof Error ? error : new Error(String(error))
AsError(error) ==
  IF error.kind = "Error" THEN error ELSE [kind |-> "Error", message |-> error.message]

Min(a, b) == IF a <= b THEN a ELSE b

\* Mutant of SleepTime: the delay is not capped.
SleepTimeUncapped(d, maxDelay) == d

\* Math.min(delay, maxDelay)
SleepTime(d, maxDelay) == Min(d, maxDelay)

InitRetry ==
  /\ HarnessIdle
  /\ ClassifyIdle

\* retry(fn, options): the options are read, delay = initialDelay, and the
\* loop starts with attempt = 1.
RetryStart ==
  /\ retryPc = "idle"
  /\ options' \in RetryOptions
  /\ delay' = options'.initialDelay
  /\ attempt' = 1
  /\ retryPc' = "loop"
  /\ UNCHANGED <<harnessVars, classifyVars, lastError, calls, sleeps, result,
                 env, envBefore, envFile, loaded>>

\* attempt <= maxAttempts: fn is called.
RetryCall ==
  /\ retryPc = "loop"
  /\ attempt <= options.maxAttempts
  /\ calls' = Append(calls, [kind |-> "pending"])
  /\ retryPc' = "awaitFn"
  /\ UNCHANGED <<harnessVars, classifyVars, options, attempt, delay, lastError, sleeps,
                 result, env, envBefore, envFile, loaded>>

\* return await fn(): fn resolved.
FnResolves ==
  /\ retryPc = "awaitFn"
  /\ \E v \in FnValues :
       /\ calls' = [calls EXCEPT ![Len(calls)] = [kind |-> "resolved", value |-> v]]
       /\ result' = [kind |-> "returned", value |-> v]
  /\ retryPc' = "done"
  /\ UNCHANGED <<harnessVars, classifyVars, options, attempt, delay, lastError, sleeps,
                 env, envBefore, envFile, loaded>>

\* Mutant of FnRejects: the error of the first failed call is kept.
FnRejectsKeepsFirstError ==
  /\ retryPc = "awaitFn"
  /\ \E e \in FnErrors :
       /\ calls' = [calls EXCEPT ![Len(calls)] = [kind |-> "rejected", error |-> e]]
       /\ lastError' = IF lastError = Undefined THEN AsError(e) ELSE lastError
       /\ IF attempt = options.maxAttempts
          THEN /\ result' = [kind |-> "thrown", error |-> lastError']
               /\ retryPc' = "done"
               /\ UNCHANGED sleeps
          ELSE /\ sleeps' = Append(sleeps, SleepTime(delay, options.maxDelay))
               /\ retryPc' = "sleeping"
               /\ UNCHANGED result
  /\ UNCHANGED <<harnessVars, classifyVars, options, attempt, delay,
                 env, envBefore, envFile, loaded>>

\* catch (error): fn rejected.  The error is kept; after the last attempt it
\* is thrown, otherwise the sleep is started.
FnRejects ==
  /\ retryPc = "awaitFn"
  /\ \E e \in FnErrors :
       /\ calls' = [calls EXCEPT ![Len(calls)] = [kind |-> "rejected", error |-> e]]
       /\ lastError' = AsError(e)
       /\ IF attempt = options.maxAttempts
          THEN /\ result' = [kind |-> "thrown", error |-> lastError']
               /\ retryPc' = "done"
               /\ UNCHANGED sleeps
          ELSE /\ sleeps' = Append(sleeps, SleepTime(delay, options.maxDelay))
               /\ retryPc' = "sleeping"
               /\ UNCHANGED result
  /\ UNCHANGED <<harnessVars, classifyVars, options, attempt, delay,
                 env, envBefore, envFile, loaded>>

\* The timer of sleep fires: delay *= backoffFactor; attempt++.
SleepEnds ==
  /\ retryPc = "sleeping"
  /\ delay' = delay * options.backoffFactor
  /\ attempt' = attempt + 1
  /\ retryPc' = "loop"
  /\ UNCHANGED <<harnessVars, classifyVars, options, lastError, calls, sleeps, result,
                 env, envBefore, envFile, loaded>>

\* The loop ends without a call (maxAttempts < 1): throw lastError!
RetryFallsThrough ==
  /\ retryPc = "loop"
  /\ attempt > options.maxAttempts
  /\ result' = [kind |-> "thrown", error |-> lastError]
  /\ retryPc' = "done"
  /\ UNCHANGED <<harnessVars, classifyVars, options, attempt, delay, lastError, calls,
                 sleeps, env, envBefore, envFile, loaded>>

NextRetry ==
  \/ RetryStart
  \/ RetryCall
  \/ FnResolves
  \/ FnRejects
  \/ SleepEnds
  \/ RetryFallsThrough

SpecRetry == InitRetry /\ [][NextRetry]_vars

\* The promise of every call of fn settles and every timer fires: a step of
\* retry that can be taken is taken.
SpecRetryFair == SpecRetry /\ WF_vars(NextRetry)

----------------------------------------------------------------------------
\* loadEnvFile of utils.ts.  process.env is a function from the names of the
\* variables that are defined to their values; a value is a sequence of
\* characters, and a defined variable may be empty.

MaxLines == 2

EnvKeys == {"NOOKAL_API_KEY", "NOOKAL_BASE_URL"}

\* The values process.env holds before the call.
EnvValues == {<<>>, <<"o", "l", "d">>}

\* The values behind the '=' of a line, trimmed: empty, plain, in quotes.
LineValues == {<<>>, <<"n", "e", "w">>, <<"QUOT", "n", "e", "w", "QUOT">>}

\* The lines of a file, trimmed: blank, a comment, a line without '=', or
\* KEY=VALUE.
EnvLines ==
  {[kind |-> "blank"], [kind |-> "comment"], [kind |-> "noEquals"]}
    \cup [kind : {"pair"}, key : EnvKeys, value : LineValues]

\* What readFileSync finds: a file, no file (ENOENT), or a file it may not
\* read (EACCES).
EnvFiles ==
  {[kind |-> "missing"], [kind |-> "unreadable"]}
    \cup [kind : {"file"}, lines : UNION {[1..n -> EnvLines] : n \in 0..MaxLines}]

Environments == UNION {[keys -> EnvValues] : keys \in SUBSET EnvKeys}

\* value.replace(/^["']|["']$/g, '')
cleanValue(value) ==
  LET first == IF value # <<>> /\ Head(value) = "QUOT" THEN 2 ELSE 1
      last == IF Len(value) >= first /\ value[Len(value)] = "QUOT"
              THEN Len(value) - 1 ELSE Len(value)
  IN SubSeq(value, first, last)

\* !process.env[key]: the variable is not defined, or it is empty.
Falsy(e, key) == key \notin DOMAIN e \/ e[key] = <<>>

\* process.env[key] = cleanValue
SetEnv(e, key, value) ==
  [k \in DOMAIN e \cup {key} |-> IF k = key THEN value ELSE e[k]]

\* The body of the for loop for one line.
applyLine(e, line) ==
  IF line.kind = "pair" /\ Falsy(e, line.key)
  THEN SetEnv(e, line.key, cleanValue(line.value))
  ELSE e

RECURSIVE applyLines(_, _)
applyLines(e, lines) ==
  IF lines = <<>> THEN e ELSE applyLines(applyLine(e, Head(lines)), Tail(lines))

InitEnv ==
  /\ script = "none"
  /\ pc = "idle"
  /\ store = {}
  /\ FreshLocals
  /\ ClassifyIdle
  /\ RetryIdle
  /\ envBefore \in Environments
  /\ env = envBefore
  /\ envFile \in EnvFiles
  /\ loaded = "idle"

\* loadEnvFile(): the file is read and its lines are applied; a missing file
\* is passed over, another error of the read is thrown again.
LoadEnvFile ==
  /\ loaded = "idle"
  /\ env' = IF envFile.kind = "file" THEN applyLines(env, envFile.lines) ELSE env
  /\ loaded' = IF envFile.kind = "unreadable" THEN "thrown" ELSE "returned"
  /\ UNCHANGED <<harnessVars, classifyVars, options, attempt, delay, lastError, calls,
                 sleeps, retryPc, result, envBefore, envFile>>

NextEnv == LoadEnvFile

SpecEnv == InitEnv /\ [][NextEnv]_vars

----------------------------------------------------------------------------
Next ==
  \/ Setup
  \/ ForLoop
  \/ Submit
  \/ Wait
  \/ Fetch
  \/ Classify
  \/ NotFound
  \/ Catch
  \/ Summary
  \/ Bonus
  \/ Restart

Spec == Init /\ [][Next]_vars

----------------------------------------------------------------------------
\* Cell life cycle.

Terminal == {"CLASSIFIED", "SUBMIT_FAILED", "FETCH_FAILED", "NOT_FOUND"}
Failed == {"SUBMIT_FAILED", "FETCH_FAILED"}

\* The transitions the life cycle lists.  A cell that polls more than once
\* stays in POLLING, and the exhausted cell has polled, so POLLING ->
\* POLL_EXHAUSTED is read as part of SUBMITTED -> POLL_EXHAUSTED.
ListedTransitions ==
  { <<"PENDING", "SUBMITTED">>, <<"SUBMITTED", "POLLING">>, <<"POLLING", "POLLING">>,
    <<"POLLING", "OBSERVED">>, <<"OBSERVED", "CLASSIFIED">>,
    <<"PENDING", "SUBMIT_FAILED">>,
    <<"SUBMITTED", "POLL_EXHAUSTED">>, <<"POLLING", "POLL_EXHAUSTED">>,
    <<"POLL_EXHAUSTED", "NOT_FOUND">> }

\* Every step of a run moves each cell along T or leaves it alone.  (A start
\* of the script makes new cells; it is no step of a cell.)
CellsMoveAlong(T) ==
  pc' # "setup" =>
    \A c \in Cells :   cellState'[c] # cellState[c] => <<cellState[c], cellState'[c]>> \in T

\* C1 (as stated): a cell moves only along PENDING -> SUBMITTED -> (POLLING)* ->
\* OBSERVED -> CLASSIFIED, PENDING -> SUBMIT_FAILED, or SUBMITTED ->
\* POLL_EXHAUSTED -> NOT_FOUND; nothing else happens and the three end states
\* are never left.
C1_OnlyListedTransitions == [][CellsMoveAlong(ListedTransitions)]_vars

\* C1 (amended): the listed transitions and one more: a cell whose fetch call
\* rejects goes from POLLING to the terminal failure FETCH_FAILED.  No step
\* leaves CLASSIFIED, SUBMIT_FAILED, FETCH_FAILED or NOT_FOUND.
C1_ListedOrFetchFailed ==
  [][CellsMoveAlong(ListedTransitions \cup {<<"POLLING", "FETCH_FAILED">>})]_vars

C1_Witness ==
  \E c, d \in Cells : cellState[c] = "FETCH_FAILED" /\ cellState[d] = "CLASSIFIED"

\* C2: a cell whose submit call failed is reported as an error, is never
\* fetched for and is never submitted again.
C2_SubmitFailureIsTerminal ==
  \A c \in Cells :
    /\ submits[c] <= 1
    /\ cellState[c] = "SUBMIT_FAILED" =>
         /\ submits[c] = 1
         /\ fetches[c] = 0
         /\ observed[c] = NoObservation
         /\ outcome[c] \in {"none", "ERROR"}
         /\ (c < i => outcome[c] = "ERROR")
         /\ \A k \in 1..Len(results) : results[k].name = c => results[k].retrieved = "ERROR"

C2_Witness ==
  \E c \in Cells : cellState[c] = "SUBMIT_FAILED" /\ outcome[c] = "ERROR" /\ pc = "done"

C4_PollingIsBounded ==
  /\ [](\A c \in Cells :
          /\ fetches[c] <= MaxFetches(script)
          /\ cellState[c] \in {"POLL_EXHAUSTED", "NOT_FOUND"} =>
               fetches[c] = MaxFetches(script))
  /\ [][pc = "fetch" /\ fetches[i] = MaxFetches(script) => pc' # "fetch"]_vars
  /\ [][pc = "notfound" =>
          cellState'[i] = "NOT_FOUND" /\ outcome'[i] = "NOT_FOUND" /\ pc' = "loop"]_vars

C4_Witness ==
  \E c \in Cells : cellState[c] = "NOT_FOUND" /\ fetches[c] = 2 /\ outcome[c] = "NOT_FOUND"

\* The note this cell submitted was handed back by a fetch.
OwnNoteSeen(c) == observed[c].kind = "payload" /\ observed[c].owner = <<"this", c>>

\* C5: a reported cell whose calls all succeeded but whose own note never came
\* back is reported NOT_FOUND, a cell with a failed call is reported ERROR,
\* and no cell without a failed call is reported ERROR.
C5_NotFoundVersusTransportError ==
  \A c \in Cells :
    outcome[c] # "none" =>
      /\ cellState[c] \in Failed <=> outcome[c] = "ERROR"
      /\ (cellState[c] \notin Failed /\ ~OwnNoteSeen(c)) => outcome[c] = "NOT_FOUND"

\* C6: no fetch is issued for a cell before its submit has resolved, and no
\* outcome is reported before the cell has an observation or a failed call.
C6_SubmitThenFetchThenVerdict ==
  \A c \in Cells :
    /\ fetches[c] > 0 => submits[c] = 1 /\ cellState[c] \notin {"PENDING", "SUBMIT_FAILED"}
    /\ cellState[c] = "PENDING" => pc # "fetch" \/ i # c
    /\ outcome[c] # "none" => observed[c] # NoObservation \/ cellState[c] \in Failed

C6_Witness ==
  \E c \in Cells : fetches[c] > 0 /\ outcome[c] = "NOT_FOUND"

\* C7: the note a cell's lookup by marker returns is the note that this very
\* cell submitted.
C7_LookupReturnsOwnNote ==
  \A c \in Cells : observed[c].kind = "payload" => observed[c].owner = <<"this", c>>

\* C9: in testUnicodeNotes every entry of results names a test case of the
\* corpus, no test case is named twice, a cell has an entry exactly when its
\* outcome has been reported, and after the loop there is one entry per case.
C9_OneResultPerCell ==
  script = "testUnicodeNotes" =>
    /\ \A k \in 1..Len(results) : results[k].name \in Cells
    /\ \A j, k \in 1..Len(results) : j # k => results[j].name # results[k].name
    /\ \A c \in Cells : outcome[c] # "none" <=> \E k \in 1..Len(results) : results[k].name = c
    /\ pc \in {"summary", "done"} => Len(results) = NumCases

C9_Witness ==
  /\ script = "testUnicodeNotes"
  /\ pc = "done"
  /\ \E j, k \in 1..Len(results) :
       results[j].retrieved = "NOT FOUND" /\ results[k].retrieved = "ERROR"

\* C10: a retrieved text equal to the original is a match, is analysed as not
\* corrupted with type "none" and no suggestions, and has no differing
\* position, whatever the text contains.
C10_EqualTextsAreClean ==
  (analysis # NoAnalysis /\ original = retrieved) =>
    /\ analysis.matches
    /\ analysis.corruption = [isCorrupted |-> FALSE, corruptionType |-> "none", suggestions |-> <<>>]
    /\ analysis.diff = <<>>

C10_Witness ==
  /\ analysis # NoAnalysis
  /\ original = retrieved
  /\ Includes(original, <<"A~">>)
  /\ analysis.corruption.corruptionType = "none"

\* The rules of a classifier in their order: each is a check on the two texts
\* and the result it stands for.  FirstMatch is the result of the first rule
\* whose check holds, and otherwise the result of the last resort.
FirstMatch(rules, otherwise) ==
  IF \E k \in 1..Len(rules) : rules[k].holds
  THEN rules[Least({k \in 1..Len(rules) : rules[k].holds})].result
  ELSE otherwise

\* C11: the classifiers check their rules in their listed order and the
\* first rule that matches decides the result: a retrieved text that differs
\* from the original gets the corruption type of the first check that holds
\* (double encoding, then symbol corruption, then HTML entities, then
\* unknown), and no later check changes it.
C11_FirstMatchingRuleDecides ==
  (analysis # NoAnalysis /\ original # retrieved) =>
    /\ analysis.corruption.corruptionType =
         FirstMatch(
           << [holds |-> Includes(retrieved, <<"A~">>), result |-> "utf8-double-encoding"],
              [holds |-> Includes(retrieved, <<"A^">>) \/ Includes(retrieved, <<"a^", "EUR">>),
               result |-> "symbol-corruption"],
              [holds |-> \/ Includes(retrieved, <<"&", "l", "t", ";">>)
                         \/ Includes(retrieved, <<"&", "a", "m", "p", ";">>),
               result |-> "html-entities"] >>,
           "unknown")
    /\ analysis.headerFix =
         FirstMatch(
           << [holds |-> Includes(retrieved, <<"A~">>), result |-> "double encoding"],
              [holds |-> Includes(retrieved, <<"A^">>), result |-> "Latin-1/UTF-8 confusion"],
              [holds |-> Includes(retrieved, <<"a^", "EUR">>), result |-> "symbol corruption"] >>,
           "unknown mangling")
    /\ \A k \in PatternHits(original, retrieved) :
         (\A m \in PatternHits(original, retrieved) : k <= m) =>
           analysis.name = patterns[k].name

\* C12: the UTF-8 bytes of "café" read as one character each are "cafÃ©",
\* and "café" with "cafÃ©" retrieved for it is analysed as corrupted, of the
\* double-encoding type.
C12_CafeIsDoubleEncoded ==
  (script = "testHeaderFix" /\ original = Cafe) =>
    /\ pc \in {"fetched", "compared"} =>
         retrieved = MockMarker \o <<"c", "a", "f", "A~", "COPY">>
    /\ pc = "compared" =>
         /\ ~analysis.matches
         /\ analysis.outcome = "CORRUPTED"
         /\ analysis.corruption.isCorrupted
         /\ analysis.corruption.corruptionType = "utf8-double-encoding"
         /\ analysis.headerFix = "double encoding"

C12_Witness ==
  /\ script = "testHeaderFix"
  /\ original = Cafe
  /\ pc = "compared"
  /\ Includes(retrieved, <<"A~", "COPY">>)
  /\ analysis.corruption.corruptionType = "utf8-double-encoding"

\* C13: "45°F" with "45Â°F" retrieved for it is analysed as corrupted, of
\* the symbol-corruption type; the pattern list names the degree symbol.
C13_DegreeIsSymbolCorruption ==
  (analysis # NoAnalysis /\ original = Degrees /\ retrieved = DegreesMangled) =>
    /\ ~analysis.matches
    /\ analysis.corruption.isCorrupted
    /\ analysis.corruption.corruptionType = "symbol-corruption"
    /\ analysis.name = "Degree symbol corruption"

C13_Witness ==
  /\ original = Degrees
  /\ retrieved = DegreesMangled
  /\ analysis # NoAnalysis
  /\ analysis.corruption.corruptionType = "symbol-corruption"

\* C14: with the store that hands back the UTF-8 bytes of what was submitted
\* as one character each, the reverse-encoding script gets "café" back for
\* "café": its outcome is the perfect match.
C14_ReverseEncodingCancelsStore ==
  (script = "testReverseEncoding" /\ original = Cafe /\ pc = "compared") =>
    analysis.matches /\ analysis.outcome = "PERFECT"

\* C15: with that store, every text of the corpus sent as it is comes back
\* corrupted, of the symbol-corruption type, and every text of the corpus
\* sent reverse-encoded comes back a perfect match (so that reverse encoding
\* is what the summary recommends).
C15_CorpusEndToEnd ==
  (original \in Corpus /\ pc = "compared") =>
    /\ script = "testHeaderFix" =>
         /\ analysis.outcome = "CORRUPTED"
         /\ analysis.corruption.corruptionType = "symbol-corruption"
    /\ script = "testReverseEncoding" => analysis.outcome = "PERFECT"

MatchedCells == {c \in Cells : outcome[c] \in {"PERFECT", "PRESERVED"}}

\* C17: the success rate of the summary is the share of the cells with an
\* exact or recovered match; cells that are improved, corrupted, not found
\* or failed do not count.
C17_SuccessRateCountsMatchesOnly ==
  report # NoReport => report.rate = Percent(Cardinality(MatchedCells))

\* No call for a cell of this run has been issued and no note of this run is
\* in the store.
NoCellExecuted ==
  /\ \A c \in Cells : submits[c] = 0 /\ fetches[c] = 0 /\ cellState[c] = "PENDING"
  /\ \A n \in store : n.owner[1] # "this"

C20_Utf16EscapesRoundTrip ==
  /\ analysis # NoAnalysis =>
       /\ Len(payload) = 6 * Len(original)
       /\ \A k \in 1..Len(original) :
            /\ payload[6 * k - 5] = "\\"
            /\ payload[6 * k - 4] = "u"
            /\ \A d \in 0..3 : IsHexDigit(payload[6 * k - d])
  /\ analysis = [kind |-> "decoded"] => retrieved = original

C20_Witness ==
  /\ analysis = [kind |-> "decoded"]
  /\ original = <<"HI", "LO">>
  /\ payload = <<"\\", "u", "d", "8", "3", "d", "\\", "u", "d", "e", "0", "0">>
  /\ retrieved = original

----------------------------------------------------------------------------
\* C21 as stated: the safe substitutions replace every character of the table
\* by the table's replacement and every other character outside 0x00-0x7F by
\* one '?', and the result is ASCII only.
TableOrQuestionMark(ch) ==
  IF ch \in DOMAIN SAFE_SUBSTITUTIONS THEN SAFE_SUBSTITUTIONS[ch]
  ELSE IF IsNonAscii(ch) THEN <<"?">>
  ELSE <<ch>>

AsciiOnly(text) == \A k \in 1..Len(text) : ~IsNonAscii(text[k])

BaseLetters == [ch \in {"s^"} |-> "s"]

TableOrBaseOrQuestionMark(ch) ==
  IF ch \in DOMAIN BaseLetters THEN <<BaseLetters[ch]>> ELSE TableOrQuestionMark(ch)

----------------------------------------------------------------------------
\* C22: when the API answers with a non-success status and the error text E,
\* the call (GET or POST) is rejected, the message of the error contains
\* "API Error: E", and no data is returned.
AnsweredWithError ==
  /\ analysis.kind \in {"returned", "rejected"}
  /\ retrieved.kind = "json"
  /\ retrieved.status # "success"
  /\ retrieved.error # Absent

C22_ApiErrorRejectsWithItsText ==
  AnsweredWithError =>
    /\ analysis.kind = "rejected"
    /\ Includes(analysis.message, <<"API", " ", "Error", ":", " ", retrieved.error>>)

----------------------------------------------------------------------------
\* C23: for an equality-based strategy (the \uXXXX escapes), when what comes
\* back is the payload as sent and decoding it gives the original text, the
\* outcome is the recovered match ("GOOD! ... preserved (can be decoded
\* client-side)"); when it is not the payload as sent, the outcome is the exact
\* match ("PERFECT!") exactly when it is the original text.
C23_PayloadFirstThenOriginal ==
  pc = "compared" =>
    LET sent == RemoveFirst(payload, Utf16Marker)
    IN /\ (analysis.content = sent /\ fromUtf16LEEscapes(analysis.content) = original)
            => analysis.outcome = "PRESERVED"
       /\ analysis.content # sent
            => (analysis.outcome = "PERFECT" <=> analysis.content = original)

\* The escapes of the degree sign came back as they were sent.
C23_Witness ==
  /\ pc = "compared"
  /\ original = <<"DEG">>
  /\ analysis.content = <<"\\", "u", "0", "0", "b", "0">>
  /\ analysis.outcome = "PRESERVED"

----------------------------------------------------------------------------
\* C24: for a structural strategy (the image scripts) the verdict is the exact
\* match exactly when the structural predicate holds on the retrieved text,
\* and is "corrupted" otherwise; no comparison of texts decides it.
C24_StructuralPredicateDecides ==
  pc = "compared" =>
    LET content == IF script = "testSimpleImages"
                   THEN RemoveFirst(retrieved, ImageMarker) ELSE retrieved
    IN IF ImagesPreserved(script, content)
       THEN analysis.line \in {"EXCELLENT", "SUCCESS", "PERFECT"}
       ELSE analysis.line \in {"CORRUPTED", "MODIFIED"}

----------------------------------------------------------------------------
\* C25: the classifier is total.  For every pair of texts, an empty retrieved
\* text for an original that is not empty included, the analysis gives one
\* corruption type and one corruption name out of the closed sets, and says
\* "corrupted" exactly when the texts differ.
CorruptionTypes ==
  {"none", "unknown", "utf8-double-encoding", "symbol-corruption", "html-entities"}

CorruptionNames ==
  {"API Error", "Note not found", "UTF-8 encoding corruption", "Latin-1/UTF-8 confusion",
   "HTML entity encoding", "Length mismatch", "Unknown character corruption"}
    \cup {patterns[k].name : k \in 1..Len(patterns)}

C25_ClassifierIsTotal ==
  (analysis # NoAnalysis) =>
    /\ analysis.matches \in BOOLEAN
    /\ analysis.corruption.isCorrupted = (retrieved # original)
    /\ analysis.corruption.corruptionType \in CorruptionTypes
    /\ (analysis.corruption.corruptionType = "none") = (retrieved = original)
    /\ retrieved # original => analysis.name \in CorruptionNames
    /\ (retrieved = <<>> /\ original # <<>>) =>
         /\ analysis.corruption.corruptionType = "unknown"
         /\ analysis.name = "Length mismatch"

\* An empty text came back for a text of one character.
C25_Witness ==
  /\ analysis # NoAnalysis
  /\ Len(original) = 1
  /\ retrieved = <<>>
  /\ analysis.name = "Length mismatch"

----------------------------------------------------------------------------
\* C26: for texts that differ the character analysis lists, in the order of
\* the positions, exactly the positions up to the length of the shorter text
\* where the two texts disagree, and one more entry behind them when the
\* lengths differ; so the list is empty exactly when the texts are equal.
ShorterLen(a, b) == IF Len(a) <= Len(b) THEN Len(a) ELSE Len(b)

DisagreeingPositions(orig, retr) ==
  LET common == [j \in 1..ShorterLen(orig, retr) |-> j - 1]
  IN SelectSeq(common, LAMBDA q : orig[q + 1] # retr[q + 1])
       \o (IF Len(orig) # Len(retr) THEN <<ShorterLen(orig, retr)>> ELSE <<>>)

C26_DiffListsDisagreeingPositions ==
  (analysis # NoAnalysis) =>
    /\ [k \in 1..Len(analysis.diff) |-> analysis.diff[k].position]
         = DisagreeingPositions(original, retrieved)
    /\ (analysis.diff = <<>>) = (retrieved = original)

----------------------------------------------------------------------------
\* C27: with maxAttempts >= 1, retry calls fn at most maxAttempts times; it
\* returns the value of the first call that succeeds and calls fn no more;
\* when all maxAttempts calls have failed it throws the error of the last
\* call; and it always comes to an end.
Rejected(k) == calls[k].kind = "rejected"

RetryIsBounded ==
  (retryPc # "idle" /\ options.maxAttempts >= 1) =>
    /\ Len(calls) <= options.maxAttempts
    /\ \A k \in 1..(Len(calls) - 1) : Rejected(k)
    /\ result.kind = "returned" =>
         /\ calls[Len(calls)] = [kind |-> "resolved", value |-> result.value]
         /\ retryPc = "done"
    /\ result.kind = "thrown" =>
         /\ Len(calls) = options.maxAttempts
         /\ Rejected(Len(calls))
         /\ result.error.message = calls[Len(calls)].error.message
         /\ retryPc = "done"
    /\ retryPc = "done" => result.kind \in {"returned", "thrown"}

\* Once retry has ended fn is not called again.
NoCallAfterTheEnd == [][retryPc = "done" => calls' = calls]_vars

C27_RetryIsBoundedAndTerminates ==
  /\ []RetryIsBounded
  /\ NoCallAfterTheEnd
  /\ <>(retryPc = "done")

\* Three calls failed and the error of the third was thrown.
C27_Witness ==
  /\ retryPc = "done"
  /\ result.kind = "thrown"
  /\ Len(calls) = 3
  /\ calls[1].error.message = "first"
  /\ calls[3].error.message = "second"
  /\ result.error.message = "second"

----------------------------------------------------------------------------
\* C28: retry sleeps once between two attempts that follow each other and not
\* after the last failed attempt; sleep number k lasts
\* min(initialDelay * backoffFactor^(k-1), maxDelay), so no sleep is longer
\* than maxDelay.
RECURSIVE Power(_, _)
Power(base, exponent) == IF exponent = 0 THEN 1 ELSE base * Power(base, exponent - 1)

C28_SleepsBetweenAttemptsAreCapped ==
  (retryPc # "idle") =>
    /\ \A k \in 1..Len(sleeps) :
         /\ sleeps[k] = Min(options.initialDelay * Power(options.backoffFactor, k - 1),
                            options.maxDelay)
         /\ sleeps[k] <= options.maxDelay
    /\ Len(sleeps) = CASE retryPc = "loop" -> Len(calls)
                        [] retryPc = "awaitFn" -> Len(calls) - 1
                        [] retryPc = "sleeping" -> Len(calls)
                        [] retryPc = "done" /\ calls # <<>> -> Len(calls) - 1
                        [] OTHER -> 0

\* Three calls failed; the second sleep was cut down to maxDelay and no sleep
\* followed the third call.
C28_Witness ==
  /\ retryPc = "done"
  /\ result.kind = "thrown"
  /\ Len(calls) = 3
  /\ options.maxDelay = 3
  /\ sleeps = <<2, 3>>

----------------------------------------------------------------------------
\* C29: every test case the loop has gone through has incremented exactly one
\* of the counters, whether its note was compared, was not found or a call
\* threw: every step of the loop body that ends a case adds one to one
\* counter, after k cases the counters sum to k, and after the loop they sum
\* to the number of test cases.
CountSum(k) == k.success + k.partial + k.fail

OneCounterMore ==
  \E name \in DOMAIN counts : counts' = [counts EXCEPT ![name] = @ + 1]

EachCaseCountsOnce ==
  [][(pc \in {"submit", "wait", "fetch", "classify", "notfound", "catch"} /\ i' = i + 1)
       => OneCounterMore]_vars

CountersSumToCases ==
  /\ pc \in {"loop", "submit", "wait", "fetch", "classify", "notfound", "catch"}
       => CountSum(counts) = i - 1
  /\ pc \in {"summary", "bonus", "done"} => CountSum(counts) = NumCases

C29_CountersSumToProcessedCases ==
  /\ []CountersSumToCases
  /\ EachCaseCountsOnce

\* The loop is over; one case threw, the others were compared or not found.
C29_Witness ==
  /\ pc = "summary"
  /\ CountSum(counts) = NumCases
  /\ \E c \in Cells : outcome[c] = "ERROR"
  /\ \E c \in Cells : outcome[c] # "ERROR"

----------------------------------------------------------------------------
\* C30: loadEnvFile never changes a variable that is already defined; a
\* KEY=VALUE line sets KEY only when KEY is not yet defined; blank lines,
\* comments and lines without '=' change nothing; a missing file changes
\* nothing and raises no error; another read error is thrown again.
PairKeys(lines) == {lines[k].key : k \in {j \in 1..Len(lines) : lines[j].kind = "pair"}}

C30_DefinedVariablesAreKept ==
  (loaded # "idle") =>
    /\ \A key \in DOMAIN envBefore : key \in DOMAIN env /\ env[key] = envBefore[key]
    /\ envFile.kind = "file" =>
         /\ DOMAIN env = DOMAIN envBefore \cup PairKeys(envFile.lines)
         /\ loaded = "returned"
    /\ envFile.kind = "missing" => (env = envBefore /\ loaded = "returned")
    /\ envFile.kind = "unreadable" => (env = envBefore /\ loaded = "thrown")

====
